---- MODULE Spec2Model ----
(***************************************************************************)
(* Model of the delimiter-separated-values reader of dsvreader.go.         *)
(*                                                                         *)
(* Bytes are numbers.  A Go slice is a record [src, off, len]: a window of *)
(* len bytes starting at the 0-based offset off of the backing array src   *)
(* ("rBuf" = Reader.rBuf, "scratch" = the array behind Reader.scratch);    *)
(* src = "nil" is the nil slice.  An error value is a record               *)
(* [kind, cause, row, col]; kind "nil" is the nil error, kind "EOF" is     *)
(* io.EOF.  The message text of an error is kept as kind (the prefix) and  *)
(* cause (the wrapped error); the quoted row content is left out.          *)
(***************************************************************************)
EXTENDS Integers, Sequences, FiniteSets, TLC

\* ------------------------------------------------------------------ bounds
\* Longest stream content, in bytes.
MaxLen == 3
\* Most reads of zero bytes with a nil error that one call of Next is offered.
MaxZeroReads == 1
\* Caps of the counters Reader.row and Reader.col.
MaxRow == 4
MaxCol == 3

\* ------------------------------------------------------- program constants
Backslash == 92
Newline == 10
Comma == 44

\* The bytes the streams are made of: '1', 'n', '\\', ',' and '\n'.
Alphabet == {49, 110, Backslash, Comma, Newline}

\* Capacity of Reader.rBuf.  The code's 4096 is scaled down to the longest
\* stream of the model, so that a single Read can deliver a whole stream.
BufSize == MaxLen

\* The sequences of at most n elements of S.
SeqsUpTo(S, n) == UNION {[1..k -> S] : k \in 0..n}

Inputs == SeqsUpTo(Alphabet, MaxLen)

\* ------------------------------------------------------------------ values
NilSlice == [src |-> "nil", off |-> 0, len |-> 0]
Slice(src, off, len) == [src |-> src, off |-> off, len |-> len]

NoErr == [kind |-> "nil", cause |-> "", row |-> 0, col |-> 0]
ErrEOF == [kind |-> "EOF", cause |-> "", row |-> 0, col |-> 0]
Errorf(kind, cause, row, col) == [kind |-> kind, cause |-> cause, row |-> row, col |-> col]

\* Return values of the operations.
RetVoid == [k |-> "void", t |-> FALSE, isnil |-> FALSE, v |-> <<>>, n |-> 0]
RetBool(x) == [k |-> "bool", t |-> x, isnil |-> FALSE, v |-> <<>>, n |-> 0]
RetBytes(v) == [k |-> "bytes", t |-> FALSE, isnil |-> FALSE, v |-> v, n |-> 0]
RetNilBytes == [k |-> "bytes", t |-> FALSE, isnil |-> TRUE, v |-> <<>>, n |-> 0]
RetString(v) == [k |-> "string", t |-> FALSE, isnil |-> FALSE, v |-> v, n |-> 0]
RetInt(n) == [k |-> "int", t |-> FALSE, isnil |-> FALSE, v |-> <<>>, n |-> n]

\* bytes.IndexByte: 0-based index of the first c in s, or -1.
IndexByte(s, c) ==
    IF \E i \in 1..Len(s) : s[i] = c
    THEN (CHOOSE i \in 1..Len(s) : s[i] = c /\ \A j \in 1..(i - 1) : s[j] # c) - 1
    ELSE -1

\* ------------------------------------------------------------------ reader
\* The array a slice views, and the bytes the slice holds.
Mem(t, src) == IF src = "rBuf" THEN t.rBuf ELSE IF src = "scratch" THEN t.scratchMem ELSE <<>>
Content(t, s) == SubSeq(Mem(t, s.src), s.off + 1, s.off + s.len)

\* var tr Reader: the zero value of the struct.  The stream tr.r is the
\* variable r of the model.
ZeroReader ==
    [rb |-> NilSlice, rErr |-> "nil", rBuf |-> <<>>,
     col |-> 0, row |-> 0,
     rowBuf |-> NilSlice, b |-> NilSlice,
     scratchMem |-> <<>>, scratchLen |-> 0,
     err |-> NoErr, sep |-> 0, needUnescape |-> FALSE]

\* A Reset that keeps the pending bytes of the old stream.
ResetKeepsPending(t) ==
    [t EXCEPT !.rErr = "nil",
              !.col = 0, !.row = 0,
              !.rowBuf = NilSlice, !.b = NilSlice,
              !.scratchLen = 0,
              !.err = NoErr, !.needUnescape = FALSE]

\* Reset(r); the stream itself is the variable r of the model.
Reset(t) ==
    [t EXCEPT !.rb = NilSlice, !.rErr = "nil",
              !.col = 0, !.row = 0,
              !.rowBuf = NilSlice, !.b = NilSlice,
              !.scratchLen = 0,
              !.err = NoErr, !.needUnescape = FALSE]

NewCustom(sep) == Reset([ZeroReader EXCEPT !.sep = sep])

NewCSV == NewCustom(Comma)

Error(t) == IF t.err = ErrEOF THEN NoErr ELSE t.err

\* A ResetError that clears nothing but io.EOF.
ResetErrorOnlyEOF(t) == IF t.err = ErrEOF THEN [t EXCEPT !.err = NoErr] ELSE t

\* A ResetError that also forgets the error the stream has ended with.
ResetErrorClearsStreamError(t) == [t EXCEPT !.err = NoErr, !.rErr = "nil"]

ResetError(t) == [t EXCEPT !.err = NoErr]

HasCols(t) == t.rowBuf.len > 0 /\ t.b.src # "nil"

\* tr.scratch = append(tr.scratch, x...): the bytes land behind the first
\* scratchLen bytes of the array.  scratchMem holds the array up to the new
\* length: what lies past it belongs to no slice the reader still holds.
AppendScratch(t, x) ==
    [t EXCEPT !.scratchMem = SubSeq(t.scratchMem, 1, t.scratchLen) \o x,
              !.scratchLen = t.scratchLen + Len(x)]

\* A refill that leaves aside the bytes a Read returns together with an error.
FillDropsBytesOnError(t, rd) ==
    [t EXCEPT !.rBuf = IF rd.err # "nil" THEN <<>> ELSE rd.p,
              !.rb = Slice("rBuf", 0, IF rd.err # "nil" THEN 0 ELSE Len(rd.p)),
              !.needUnescape = (IndexByte(rd.p, Backslash) >= 0),
              !.rErr = rd.err]

\* n, err := tr.r.Read(tr.rBuf[:]) and the three assignments after it.
\* rd = [p |-> the bytes delivered, err |-> "nil" | "EOF" | "ERR"].
\* rBuf holds the first n bytes of the array: io.Reader leaves the bytes past
\* n unspecified, and tr.rb = tr.rBuf[:n] is all the reader looks at.
Fill(t, rd) ==
    [t EXCEPT !.rBuf = rd.p,
              !.rb = Slice("rBuf", 0, Len(rd.p)),
              !.needUnescape = (IndexByte(rd.p, Backslash) >= 0),
              !.rErr = rd.err]

\* A stream end that reports io.EOF whatever is staged in tr.scratch.
NextStreamEndNoTruncation(t) ==
    [t EXCEPT !.err = IF t.rErr # "EOF"
                      THEN Errorf("cannot read row", t.rErr, t.row, 0)
                      ELSE ErrEOF]

\* The terminal branch of the refill: the read buffer is empty and the stream
\* has already returned an error.
NextStreamEnd(t) ==
    [t EXCEPT !.err = IF t.rErr # "EOF"
                      THEN Errorf("cannot read row", t.rErr, t.row, 0)
                      ELSE IF t.scratchLen > 0
                           THEN Errorf("cannot find newline at the end of row", "", t.row, 0)
                           ELSE ErrEOF]

\* A row found that leaves out the bytes staged in tr.scratch.
NextRowFoundDropsScratch(t, n) ==
    [t EXCEPT !.rb = Slice("rBuf", t.rb.off + n + 1, t.rb.len - n - 1),
              !.scratchLen = 0,
              !.rowBuf = Slice("rBuf", t.rb.off, n),
              !.b = Slice("rBuf", t.rb.off, n)]

\* The row has been found: n is the index of the newline in tr.rb.
NextRowFound(t, n) ==
    LET b0 == Slice("rBuf", t.rb.off, n)
        t1 == [t EXCEPT !.rb = Slice("rBuf", t.rb.off + n + 1, t.rb.len - n - 1)]
        t2 == IF t1.scratchLen > 0
              THEN [AppendScratch(t1, Content(t1, b0)) EXCEPT !.scratchLen = 0]
              ELSE t1
        b1 == IF t1.scratchLen > 0 THEN Slice("scratch", 0, t1.scratchLen + n) ELSE b0
    IN [t2 EXCEPT !.rowBuf = b1, !.b = b1]

\* ------------------------------------------------------------------ stream
\* The io.Reader: data is everything it will deliver, pos the number of bytes
\* delivered so far, term the error it has ended with ("nil" until then, "EOF"
\* or "ERR" after), fate the error it is going to end with ("any": either).
\* A Read delivers any number of the remaining bytes that fits the buffer; the
\* terminal error comes with the last bytes or after them, and is returned
\* again by every later Read; late counts the calls of Read made after the
\* stream has ended.  A stream with whole set delivers all its bytes in its
\* first Read and its error in the second.
Min(a, b) == IF a < b THEN a ELSE b

Fates(s) == IF s.fate = "any" THEN {"EOF", "ERR"} ELSE {s.fate}

\* The results Read can return on stream s: rd = [p |-> the bytes delivered,
\* err |-> "nil" | "EOF" | "ERR"].  zeros: reads of no bytes with a nil error
\* still allowed in this call of Next.
PossibleReads(s, zeros) ==
    LET rem == Len(s.data) - s.pos
        rest == SubSeq(s.data, s.pos + 1, Len(s.data))
    IN IF s.term # "nil"
       THEN {[p |-> <<>>, err |-> s.term]}
       ELSE IF s.whole
       THEN IF rem > 0
            THEN {[p |-> rest, err |-> "nil"]}
            ELSE {[p |-> <<>>, err |-> e] : e \in Fates(s)}
       ELSE {rd \in {[p |-> SubSeq(rest, 1, n), err |-> e] :
                        n \in 0..Min(BufSize, rem), e \in {"nil"} \cup Fates(s)} :
               /\ (rd.err # "nil" => Len(rd.p) = rem)
               /\ (Len(rd.p) = 0 /\ rd.err = "nil" => zeros > 0)}

AfterRead(s, rd) ==
    [s EXCEPT !.pos = s.pos + Len(rd.p), !.term = rd.err,
              !.late = IF s.term # "nil" THEN s.late + 1 ELSE s.late]

Stream(data, fate, whole) ==
    [data |-> data, pos |-> 0, term |-> "nil", fate |-> fate, whole |-> whole, late |-> 0]

\* The for loop of Next on stream s: the set of the ways it can end, one for
\* each sequence of results the calls of Read can return.  An outcome is
\* [tr, ret, r, reads]: the reader and the stream after the call, the value
\* returned and the results of the calls of Read made.
RECURSIVE NextLoop(_, _, _, _)
NextLoop(t, s, zeros, reads) ==
    IF t.rb.len = 0 /\ t.rErr # "nil"
    THEN {[tr |-> NextStreamEnd(t), ret |-> FALSE, r |-> s, reads |-> reads]}
    ELSE UNION {
        LET t1 == IF t.rb.len = 0 THEN Fill(t, rd) ELSE t
            s1 == IF t.rb.len = 0 THEN AfterRead(s, rd) ELSE s
            z1 == IF t.rb.len = 0 /\ Len(rd.p) = 0 /\ rd.err = "nil" THEN zeros - 1 ELSE zeros
            l1 == IF t.rb.len = 0 THEN Append(reads, rd) ELSE reads
            n == IndexByte(Content(t1, t1.rb), Newline)
        IN IF n >= 0
           THEN {[tr |-> NextRowFound(t1, n), ret |-> TRUE, r |-> s1, reads |-> l1]}
           ELSE NextLoop([AppendScratch(t1, Content(t1, t1.rb)) EXCEPT !.rb = NilSlice],
                         s1, z1, l1)
        : rd \in IF t.rb.len = 0 THEN PossibleReads(s, zeros) ELSE {[p |-> <<>>, err |-> "nil"]}}

\* A Next that counts the row before it looks for unread columns.
ReaderNextCountsFailedCalls(t, s, zeros) ==
    IF t.err # NoErr
    THEN {[tr |-> t, ret |-> FALSE, r |-> s, reads |-> <<>>]}
    ELSE IF HasCols(t)
    THEN {[tr |-> [t EXCEPT !.row = t.row + 1,
                            !.err = Errorf("contains unread columns", "", t.row + 1, 0)],
           ret |-> FALSE, r |-> s, reads |-> <<>>]}
    ELSE NextLoop([t EXCEPT !.row = t.row + 1, !.col = 0, !.rowBuf = NilSlice], s, zeros, <<>>)

\* A Next that advances although columns of the row are unread.
ReaderNextNoUnreadCheck(t, s, zeros) ==
    IF t.err # NoErr
    THEN {[tr |-> t, ret |-> FALSE, r |-> s, reads |-> <<>>]}
    ELSE NextLoop([t EXCEPT !.row = t.row + 1, !.col = 0, !.rowBuf = NilSlice], s, zeros, <<>>)

\* Next: advance to the next row.
ReaderNext(t, s, zeros) ==
    IF t.err # NoErr
    THEN {[tr |-> t, ret |-> FALSE, r |-> s, reads |-> <<>>]}
    ELSE IF HasCols(t)
    THEN {[tr |-> [t EXCEPT !.err = Errorf("contains unread columns", "", t.row, 0)],
           ret |-> FALSE, r |-> s, reads |-> <<>>]}
    ELSE NextLoop([t EXCEPT !.row = t.row + 1, !.col = 0, !.rowBuf = NilSlice], s, zeros, <<>>)

setColError(t, msg, cause) == [t EXCEPT !.err = Errorf(msg, cause, t.row, t.col)]

\* A nextCol that does not look at tr.row.
nextColNoRowCheck(t) ==
    LET t1 == [t EXCEPT !.col = t.col + 1]
    IN IF t1.b.src = "nil"
       THEN [tr |-> t1, b |-> NilSlice, err |-> "no more columns"]
       ELSE LET n == IndexByte(Content(t1, t1.b), t1.sep)
            IN IF n < 0
               THEN [tr |-> [t1 EXCEPT !.b = NilSlice], b |-> t1.b, err |-> ""]
               ELSE [tr |-> [t1 EXCEPT !.b = Slice(t1.b.src, t1.b.off + n + 1,
                                                  t1.b.len - n - 1)],
                     b |-> Slice(t1.b.src, t1.b.off, n), err |-> ""]

\* A nextCol that counts a column only once it has found one.
nextColCountsOnSuccess(t) ==
    IF t.row = 0
    THEN [tr |-> t, b |-> NilSlice, err |-> "missing Next call"]
    ELSE IF t.b.src = "nil"
    THEN [tr |-> t, b |-> NilSlice, err |-> "no more columns"]
    ELSE LET t1 == [t EXCEPT !.col = t.col + 1]
             n == IndexByte(Content(t1, t1.b), t1.sep)
         IN IF n < 0
            THEN [tr |-> [t1 EXCEPT !.b = NilSlice], b |-> t1.b, err |-> ""]
            ELSE [tr |-> [t1 EXCEPT !.b = Slice(t1.b.src, t1.b.off + n + 1,
                                               t1.b.len - n - 1)],
                  b |-> Slice(t1.b.src, t1.b.off, n), err |-> ""]

\* A nextCol that starts the row over when its columns are exhausted.
nextColRewinds(t) ==
    IF t.row = 0
    THEN [tr |-> t, b |-> NilSlice, err |-> "missing Next call"]
    ELSE LET t1 == [t EXCEPT !.col = t.col + 1]
         IN IF t1.b.src = "nil"
            THEN [tr |-> [t1 EXCEPT !.b = t1.rowBuf], b |-> NilSlice, err |-> "no more columns"]
            ELSE LET n == IndexByte(Content(t1, t1.b), t1.sep)
                 IN IF n < 0
                    THEN [tr |-> [t1 EXCEPT !.b = NilSlice], b |-> t1.b, err |-> ""]
                    ELSE [tr |-> [t1 EXCEPT !.b = Slice(t1.b.src, t1.b.off + n + 1,
                                                       t1.b.len - n - 1)],
                          b |-> Slice(t1.b.src, t1.b.off, n), err |-> ""]

\* nextCol: [tr, b, err] with err = "" for a nil error.
nextCol(t) ==
    IF t.row = 0
    THEN [tr |-> t, b |-> NilSlice, err |-> "missing Next call"]
    ELSE LET t1 == [t EXCEPT !.col = t.col + 1]
         IN IF t1.b.src = "nil"
            THEN [tr |-> t1, b |-> NilSlice, err |-> "no more columns"]
            ELSE LET n == IndexByte(Content(t1, t1.b), t1.sep)
                 IN IF n < 0
                    THEN [tr |-> [t1 EXCEPT !.b = NilSlice], b |-> t1.b, err |-> ""]
                    ELSE [tr |-> [t1 EXCEPT !.b = Slice(t1.b.src, t1.b.off + n + 1,
                                                       t1.b.len - n - 1)],
                          b |-> Slice(t1.b.src, t1.b.off, n), err |-> ""]

\* A SkipCol that drops the error of nextCol.
SkipColDropsError(t) ==
    IF t.err # NoErr
    THEN [tr |-> t, ret |-> RetVoid]
    ELSE [tr |-> nextCol(t).tr, ret |-> RetVoid]

SkipCol(t) ==
    IF t.err # NoErr
    THEN [tr |-> t, ret |-> RetVoid]
    ELSE LET c == nextCol(t)
         IN IF c.err # ""
            THEN [tr |-> setColError(c.tr, "cannot skip column", c.err), ret |-> RetVoid]
            ELSE [tr |-> c.tr, ret |-> RetVoid]

\* The byte an escape sequence stands for: the switch of Bytes.
UnescapeByte(c) ==
    CASE c = 98 -> 8
      [] c = 102 -> 12
      [] c = 114 -> 13
      [] c = 110 -> 10
      [] c = 116 -> 9
      [] c = 48 -> 0
      [] c = 39 -> 39
      [] c = 92 -> 92
      [] OTHER -> c

\* append(d, x...) where x is the k bytes at offset xoff of the array d lies in
\* and d ends at offset dend: the capacity of d reaches the end of the array, so
\* the bytes are copied inside the array (as memmove does).
AppendWithin(mem, dend, xoff, k) ==
    [i \in 1..Len(mem) |-> IF i > dend /\ i <= dend + k THEN mem[xoff + (i - dend)] ELSE mem[i]]

\* The for loop of Bytes.  d and b are [off, len] windows of the array mem.
RECURSIVE UnescapeLoop(_, _, _)
UnescapeLoop(mem, d, b) ==
    IF b.len = 0
    THEN [mem |-> mem, d |-> d]
    ELSE LET m1 == [mem EXCEPT ![d.off + d.len] = UnescapeByte(mem[b.off + 1])]
             b1 == [off |-> b.off + 1, len |-> b.len - 1]
             n == IndexByte(SubSeq(m1, b1.off + 1, b1.off + b1.len), Backslash)
         IN IF n < 0
            THEN [mem |-> AppendWithin(m1, d.off + d.len, b1.off, b1.len),
                  d |-> [d EXCEPT !.len = d.len + b1.len]]
            ELSE UnescapeLoop(AppendWithin(m1, d.off + d.len, b1.off, n + 1),
                              [d EXCEPT !.len = d.len + n + 1],
                              [off |-> b1.off + n + 1, len |-> b1.len - n - 1])

WithMem(t, src, mem) ==
    IF src = "rBuf" THEN [t EXCEPT !.rBuf = mem] ELSE [t EXCEPT !.scratchMem = mem]

\* A Bytes that unescapes the rest of the row instead of the column alone.
BytesColumnUnescapesRow(t) ==
    LET c == nextCol(t)
    IN IF c.err # ""
       THEN [tr |-> setColError(c.tr, "cannot read bytes", c.err),
             ret |-> RetNilBytes, d |-> NilSlice]
       ELSE IF ~c.tr.needUnescape
       THEN [tr |-> c.tr, ret |-> RetBytes(Content(c.tr, c.b)), d |-> c.b]
       ELSE LET n == IndexByte(Content(c.tr, c.b), Backslash)
            IN IF n < 0
               THEN [tr |-> c.tr, ret |-> RetBytes(Content(c.tr, c.b)), d |-> c.b]
               ELSE LET u == UnescapeLoop(Mem(c.tr, c.b.src),
                                          [off |-> c.b.off, len |-> n + 1],
                                          [off |-> c.b.off + n + 1, len |-> t.b.len - n - 1])
                        t1 == WithMem(c.tr, c.b.src, u.mem)
                        d == Slice(c.b.src, u.d.off, Min(u.d.len, c.b.len))
                    IN [tr |-> t1, ret |-> RetBytes(Content(t1, d)), d |-> d]

\* Bytes once the reader is known to hold no error: [tr, ret, d] where d is
\* the slice returned.
BytesColumn(t) ==
    LET c == nextCol(t)
    IN IF c.err # ""
       THEN [tr |-> setColError(c.tr, "cannot read bytes", c.err),
             ret |-> RetNilBytes, d |-> NilSlice]
       ELSE IF ~c.tr.needUnescape
       THEN [tr |-> c.tr, ret |-> RetBytes(Content(c.tr, c.b)), d |-> c.b]
       ELSE LET n == IndexByte(Content(c.tr, c.b), Backslash)
            IN IF n < 0
               THEN [tr |-> c.tr, ret |-> RetBytes(Content(c.tr, c.b)), d |-> c.b]
               ELSE LET u == UnescapeLoop(Mem(c.tr, c.b.src),
                                          [off |-> c.b.off, len |-> n + 1],
                                          [off |-> c.b.off + n + 1, len |-> c.b.len - n - 1])
                        t1 == WithMem(c.tr, c.b.src, u.mem)
                        d == Slice(c.b.src, u.d.off, u.d.len)
                    IN [tr |-> t1, ret |-> RetBytes(Content(t1, d)), d |-> d]

\* A Bytes that does not look at the error the reader holds.
BytesNoStickyCheck(t) == BytesColumn(t)

Bytes(t) ==
    IF t.err # NoErr
    THEN [tr |-> t, ret |-> RetNilBytes, d |-> NilSlice]
    ELSE BytesColumn(t)

\* String: string(tr.Bytes()); a nil slice converts to the empty string.
String(t) ==
    LET o == Bytes(t) IN [tr |-> o.tr, ret |-> RetString(o.ret.v), d |-> o.d]

\* strconv.Atoi on a column of a few bytes: an optional sign, then one or
\* more decimal digits.  Columns this short cannot leave the range of int.
RECURSIVE DigitsValue(_)
DigitsValue(s) ==
    IF Len(s) = 0 THEN 0 ELSE 10 * DigitsValue(SubSeq(s, 1, Len(s) - 1)) + (s[Len(s)] - 48)

Atoi(s) ==
    LET signed == Len(s) > 0 /\ s[1] \in {43, 45}
        digits == IF signed THEN Tail(s) ELSE s
    IN IF Len(digits) = 0 \/ \E i \in 1..Len(digits) : digits[i] < 48 \/ digits[i] > 57
       THEN [n |-> 0, err |-> "invalid syntax"]
       ELSE [n |-> IF signed /\ s[1] = 45 THEN 0 - DigitsValue(digits) ELSE DigitsValue(digits),
             err |-> ""]

ReaderInt(t) ==
    IF t.err # NoErr
    THEN [tr |-> t, ret |-> RetInt(0)]
    ELSE LET c == nextCol(t)
         IN IF c.err # ""
            THEN [tr |-> setColError(c.tr, "cannot read int", c.err), ret |-> RetInt(0)]
            ELSE LET a == Atoi(Content(c.tr, c.b))
                 IN IF a.err # ""
                    THEN [tr |-> setColError(c.tr, "cannot parse int", a.err), ret |-> RetInt(0)]
                    ELSE [tr |-> c.tr, ret |-> RetInt(a.n)]

\* The part the sized integer decoders share: the sticky check, nextCol and
\* strconv.Atoi.  [tr, ok, n]: ok says that n is the integer parsed.
AtoiColumn(t, type) ==
    IF t.err # NoErr
    THEN [tr |-> t, ok |-> FALSE, n |-> 0]
    ELSE LET c == nextCol(t)
         IN IF c.err # ""
            THEN [tr |-> setColError(c.tr, "cannot read " \o type, c.err), ok |-> FALSE, n |-> 0]
            ELSE LET a == Atoi(Content(c.tr, c.b))
                 IN IF a.err # ""
                    THEN [tr |-> setColError(c.tr, "cannot parse " \o type, a.err),
                          ok |-> FALSE, n |-> 0]
                    ELSE [tr |-> c.tr, ok |-> TRUE, n |-> a.n]

\* The conversions uintW(n) and intW(n) of an int.
ToUint(n, w) == n % (2 ^ w)
ToInt(n, w) == ((n + 2 ^ (w - 1)) % (2 ^ w)) - 2 ^ (w - 1)

Int16(t) ==
    LET p == AtoiColumn(t, "int16")
    IN IF ~p.ok
       THEN [tr |-> p.tr, ret |-> RetInt(0)]
       ELSE IF p.n < 0 - 32768 \/ p.n > 32767
       THEN [tr |-> setColError(p.tr, "cannot parse int16", "out of range"), ret |-> RetInt(0)]
       ELSE [tr |-> p.tr, ret |-> RetInt(ToInt(p.n, 16))]

Uint16(t) ==
    LET p == AtoiColumn(t, "uint16")
    IN IF ~p.ok
       THEN [tr |-> p.tr, ret |-> RetInt(0)]
       ELSE IF p.n < 0
       THEN [tr |-> setColError(p.tr, "cannot parse uint16", "invalid syntax"), ret |-> RetInt(0)]
       ELSE IF p.n > 65535
       THEN [tr |-> setColError(p.tr, "cannot parse uint16", "out of range"), ret |-> RetInt(0)]
       ELSE [tr |-> p.tr, ret |-> RetInt(ToUint(p.n, 16))]

Int8(t) ==
    LET p == AtoiColumn(t, "int8")
    IN IF ~p.ok
       THEN [tr |-> p.tr, ret |-> RetInt(0)]
       ELSE IF p.n < 0 - 128 \/ p.n > 127
       THEN [tr |-> setColError(p.tr, "cannot parse int8", "out of range"), ret |-> RetInt(0)]
       ELSE [tr |-> p.tr, ret |-> RetInt(ToInt(p.n, 8))]

\* A Uint8 whose upper bound is off by one.
Uint8BoundOffByOne(t) ==
    LET p == AtoiColumn(t, "uint8")
    IN IF ~p.ok
       THEN [tr |-> p.tr, ret |-> RetInt(0)]
       ELSE IF p.n < 0
       THEN [tr |-> setColError(p.tr, "cannot parse uint8", "invalid syntax"), ret |-> RetInt(0)]
       ELSE IF p.n > 256
       THEN [tr |-> setColError(p.tr, "cannot parse uint8", "out of range"), ret |-> RetInt(0)]
       ELSE [tr |-> p.tr, ret |-> RetInt(ToUint(p.n, 8))]

Uint8(t) ==
    LET p == AtoiColumn(t, "uint8")
    IN IF ~p.ok
       THEN [tr |-> p.tr, ret |-> RetInt(0)]
       ELSE IF p.n < 0
       THEN [tr |-> setColError(p.tr, "cannot parse uint8", "invalid syntax"), ret |-> RetInt(0)]
       ELSE IF p.n > 255
       THEN [tr |-> setColError(p.tr, "cannot parse uint8", "out of range"), ret |-> RetInt(0)]
       ELSE [tr |-> p.tr, ret |-> RetInt(ToUint(p.n, 8))]

\* The time.Time returned by Date, as year, month and day.
RetTime(y, m, d) == [k |-> "time", t |-> FALSE, isnil |-> FALSE, v |-> <<y, m, d>>, n |-> 0]

\* var zeroTime time.Time: January 1 of year 1, 00:00 UTC.
zeroTime == RetTime(1, 1, 1)

\* time.Date normalises its arguments: a month outside 1..12 carries into the
\* year, a day outside the month carries into the month.
IsLeap(y) == y % 4 = 0 /\ (y % 100 # 0 \/ y % 400 = 0)

DaysIn(y, m) ==
    IF m = 2 THEN (IF IsLeap(y) THEN 29 ELSE 28)
    ELSE IF m \in {4, 6, 9, 11} THEN 30 ELSE 31

RECURSIVE NormalDay(_, _, _)
NormalDay(y, m, d) ==
    IF d < 1
    THEN LET pm == IF m = 1 THEN 12 ELSE m - 1
             py == IF m = 1 THEN y - 1 ELSE y
         IN NormalDay(py, pm, d + DaysIn(py, pm))
    ELSE IF d > DaysIn(y, m)
    THEN NormalDay(IF m = 12 THEN y + 1 ELSE y, IF m = 12 THEN 1 ELSE m + 1, d - DaysIn(y, m))
    ELSE RetTime(y, m, d)

TimeDate(y, m, d) == NormalDay(y + ((m - 1) \div 12), ((m - 1) % 12) + 1, d)

\* parseDate: [y, m, d, err] with err = "" for a nil error.
parseDate(s) ==
    IF Len(s) # 10
    THEN [y |-> 0, m |-> 0, d |-> 0, err |-> "too short date"]
    ELSE IF s[5] # 45 /\ s[8] # 45
    THEN [y |-> 0, m |-> 0, d |-> 0, err |-> "invalid date format"]
    ELSE LET y == Atoi(SubSeq(s, 1, 4))
             m == Atoi(SubSeq(s, 6, 7))
             d == Atoi(SubSeq(s, 9, 10))
         IN IF y.err # ""
            THEN [y |-> y.n, m |-> 0, d |-> 0, err |-> "invalid year"]
            ELSE IF m.err # ""
            THEN [y |-> y.n, m |-> m.n, d |-> 0, err |-> "invalid month"]
            ELSE IF d.err # ""
            THEN [y |-> y.n, m |-> m.n, d |-> d.n, err |-> "invalid day"]
            ELSE [y |-> y.n, m |-> m.n, d |-> d.n, err |-> ""]

Date(t) ==
    IF t.err # NoErr
    THEN [tr |-> t, ret |-> zeroTime]
    ELSE LET c == nextCol(t)
         IN IF c.err # ""
            THEN [tr |-> setColError(c.tr, "cannot read date", c.err), ret |-> zeroTime]
            ELSE LET p == parseDate(Content(c.tr, c.b))
                 IN IF p.err # ""
                    THEN [tr |-> setColError(c.tr, "cannot parse date", p.err), ret |-> zeroTime]
                    ELSE IF p.y = 0 /\ p.m = 0 /\ p.d = 0
                    THEN [tr |-> c.tr, ret |-> zeroTime]
                    ELSE [tr |-> c.tr, ret |-> TimeDate(p.y, p.m, p.d)]

\* ------------------------------------------------------------- state machine
\* tr    the Reader
\* r     the stream tr.r
\* last  the operation just performed: its name, what it returned,
\*       whether the reader held an error when it was called, and what the
\*       error was about that this ResetError, or a ResetError immediately
\*       before this operation, cleared ("" if there was none)
\* sh    a second reader with its stream, driven by the same operations
\* out   the columns returned so far, row by row
VARIABLES tr, r, last, sh, out

vars == <<tr, r, last, sh, out>>

\* What an error is about: its cause if it wraps one, else its kind.
ErrTag(e) == IF e = NoErr THEN "" ELSE IF e.cause # "" THEN e.cause ELSE e.kind

Did(op, ret) ==
    [op |-> op, ret |-> ret, sticky |-> tr.err # NoErr,
     cleared |-> IF op = "ResetError" THEN ErrTag(tr.err)
                 ELSE IF last.op = "ResetError" THEN last.cleared ELSE ""]

Start == [op |-> "NewCSV", ret |-> RetVoid, sticky |-> FALSE, cleared |-> ""]

NoShadow == [on |-> FALSE, tr |-> ZeroReader, r |-> Stream(<<>>, "any", FALSE),
             ret |-> RetVoid, ok |-> TRUE]

Init ==
    /\ tr = NewCSV
    /\ r \in {Stream(d, "any", FALSE) : d \in Inputs}
    /\ last = Start
    /\ sh = NoShadow
    /\ out = <<>>

DoNext ==
    /\ tr.row < MaxRow
    /\ \E o \in ReaderNext(tr, r, MaxZeroReads) :
           /\ tr' = o.tr
           /\ r' = o.r
           /\ last' = Did("Next", RetBool(o.ret))
    /\ UNCHANGED <<sh, out>>

DoSkipCol ==
    /\ tr.col < MaxCol
    /\ tr' = SkipCol(tr).tr
    /\ last' = Did("SkipCol", SkipCol(tr).ret)
    /\ UNCHANGED <<r, sh, out>>

DoBytes ==
    /\ tr.col < MaxCol
    /\ tr' = Bytes(tr).tr
    /\ last' = Did("Bytes", Bytes(tr).ret)
    /\ UNCHANGED <<r, sh, out>>

DoInt ==
    /\ tr.col < MaxCol
    /\ tr' = ReaderInt(tr).tr
    /\ last' = Did("Int", ReaderInt(tr).ret)
    /\ UNCHANGED <<r, sh, out>>

DoResetError ==
    /\ tr' = ResetError(tr)
    /\ last' = Did("ResetError", RetVoid)
    /\ UNCHANGED <<r, sh, out>>

Next == DoNext \/ DoSkipCol \/ DoBytes \/ DoInt \/ DoResetError

Spec == Init /\ [][Next]_vars

\* ---------------------------------------------- split reads against one read
\* tr reads a stream in reads of any sizes, sh.tr reads the same bytes from a
\* stream that delivers them in one read, and both are given the same calls.
SplitInit ==
    /\ tr = NewCSV
    /\ last = Start
    /\ out = <<>>
    /\ \E d \in Inputs, f \in {"EOF", "ERR"} :
           /\ r = Stream(d, f, FALSE)
           /\ sh = [on |-> TRUE, tr |-> NewCSV, r |-> Stream(d, f, TRUE),
                    ret |-> RetVoid, ok |-> TRUE]

SplitNext ==
    /\ tr.row < MaxRow
    /\ \E o \in ReaderNext(tr, r, MaxZeroReads), o2 \in ReaderNext(sh.tr, sh.r, 0) :
           /\ tr' = o.tr
           /\ r' = o.r
           /\ last' = Did("Next", RetBool(o.ret))
           /\ sh' = [sh EXCEPT !.tr = o2.tr, !.r = o2.r, !.ret = RetBool(o2.ret)]
    /\ UNCHANGED out

SplitBytes ==
    /\ tr.col < MaxCol
    /\ tr' = Bytes(tr).tr
    /\ last' = Did("Bytes", Bytes(tr).ret)
    /\ sh' = [sh EXCEPT !.tr = Bytes(sh.tr).tr, !.ret = Bytes(sh.tr).ret]
    /\ UNCHANGED <<r, out>>

SplitSkipCol ==
    /\ tr.col < MaxCol
    /\ tr' = SkipCol(tr).tr
    /\ last' = Did("SkipCol", SkipCol(tr).ret)
    /\ sh' = [sh EXCEPT !.tr = SkipCol(sh.tr).tr, !.ret = SkipCol(sh.tr).ret]
    /\ UNCHANGED <<r, out>>

SplitStep == SplitNext \/ SplitBytes \/ SplitSkipCol

SpecSplit == SplitInit /\ [][SplitStep]_vars

\* ------------------------------------------------------ a well-behaved caller
\* The caller of the protocol: Next, then one accessor call for each column the
\* row has in the stream, then Next again, until Next returns false.
RECURSIVE SplitOn(_, _)
SplitOn(bytes, c) ==
    LET n == IndexByte(bytes, c)
    IN IF n < 0 THEN <<bytes>>
       ELSE <<SubSeq(bytes, 1, n)>> \o SplitOn(SubSeq(bytes, n + 2, Len(bytes)), c)

\* The complete rows of a stream, and the columns of a row.
RowsOf(data) == LET parts == SplitOn(data, Newline) IN SubSeq(parts, 1, Len(parts) - 1)
ColsOf(row) == SplitOn(row, Comma)

\* Columns of the current row the caller has not asked for yet.
ColumnsDue ==
    /\ Len(out) > 0
    /\ Len(out) <= Len(RowsOf(r.data))
    /\ Len(out[Len(out)]) < Len(ColsOf(RowsOf(r.data)[Len(out)]))

Running == last.op = "NewCSV" \/ last.ret # RetBool(FALSE)

CallerNext ==
    /\ Running /\ ~ColumnsDue
    /\ \E o \in ReaderNext(tr, r, MaxZeroReads) :
           /\ tr' = o.tr
           /\ r' = o.r
           /\ last' = Did("Next", RetBool(o.ret))
           /\ out' = IF o.ret THEN Append(out, <<>>) ELSE out
    /\ UNCHANGED sh

CallerBytes ==
    /\ Running /\ ColumnsDue
    /\ tr' = Bytes(tr).tr
    /\ last' = Did("Bytes", Bytes(tr).ret)
    /\ out' = [out EXCEPT ![Len(out)] = Append(@, Bytes(tr).ret)]
    /\ UNCHANGED <<r, sh>>

CallerString ==
    /\ Running /\ ColumnsDue
    /\ tr' = String(tr).tr
    /\ last' = Did("String", String(tr).ret)
    /\ out' = [out EXCEPT ![Len(out)] = Append(@, String(tr).ret)]
    /\ UNCHANGED <<r, sh>>

CallerStep == CallerNext \/ CallerBytes \/ CallerString

SpecCaller == Init /\ [][CallerStep]_vars

\* ----------------------------------------------------------------- Reset
\* Longest stream, in bytes, before and after Reset.
ResetLen == 2

\* The streams the reader reads before Reset are made of '1' and '\n', the
\* streams it is rebound to of 'n', '\\', ',' and '\n': a '1' met after Reset
\* is a byte of the old stream.
OldInputs == SeqsUpTo({49, Newline}, ResetLen)
ResetInputs == SeqsUpTo({110, Backslash, Comma, Newline}, ResetLen)

ResetInit ==
    /\ tr = NewCSV
    /\ r \in {Stream(d, "any", FALSE) : d \in OldInputs}
    /\ last = Start
    /\ sh = NoShadow
    /\ out = <<>>

\* last is recorded from Reset on.
DidSince(op, ret) == IF sh.on THEN Did(op, ret) ELSE Start

\* Reset(r2): from then on sh.tr is a reader newly made for r2, given the same
\* calls and the same results of Read as tr.
DoReset ==
    /\ ~sh.on
    /\ \E d \in ResetInputs :
           /\ r' = Stream(d, "any", FALSE)
           /\ sh' = [on |-> TRUE, tr |-> NewCustom(tr.sep), r |-> Stream(d, "any", FALSE),
                     ret |-> RetVoid, ok |-> TRUE]
    /\ tr' = Reset(tr)
    /\ last' = Did("Reset", RetVoid)
    /\ UNCHANGED out

\* The outcome of Next on the second reader that meets the same reads.
Follow(o) ==
    LET same == {o2 \in ReaderNext(sh.tr, sh.r, 0) : o2.reads = o.reads}
    IN IF ~sh.on THEN sh
       ELSE IF same = {} THEN [sh EXCEPT !.ok = FALSE]
       ELSE LET o2 == CHOOSE x \in same : TRUE
            IN [sh EXCEPT !.tr = o2.tr, !.r = o2.r, !.ret = RetBool(o2.ret)]

ResetNext ==
    /\ tr.row <= ResetLen
    /\ \E o \in ReaderNext(tr, r, 0) :
           /\ tr' = o.tr
           /\ r' = o.r
           /\ last' = DidSince("Next", RetBool(o.ret))
           /\ sh' = Follow(o)
    /\ UNCHANGED out

ResetBytes ==
    /\ tr.col <= ResetLen
    /\ tr' = Bytes(tr).tr
    /\ last' = DidSince("Bytes", Bytes(tr).ret)
    /\ sh' = IF sh.on THEN [sh EXCEPT !.tr = Bytes(sh.tr).tr, !.ret = Bytes(sh.tr).ret] ELSE sh
    /\ UNCHANGED <<r, out>>

ResetResetError ==
    /\ tr' = ResetError(tr)
    /\ last' = DidSince("ResetError", RetVoid)
    /\ sh' = IF sh.on THEN [sh EXCEPT !.tr = ResetError(sh.tr), !.ret = RetVoid] ELSE sh
    /\ UNCHANGED <<r, out>>

ResetStep == DoReset \/ ResetNext \/ ResetBytes \/ ResetResetError

SpecReset == ResetInit /\ [][ResetStep]_vars

\* ------------------------------------------------------------------ claims
ColOps == {"SkipCol", "Bytes", "Int"}

\* The zero value an operation returns.
ZeroRet(op) ==
    CASE op = "Next" -> RetBool(FALSE)
      [] op = "Bytes" -> RetNilBytes
      [] op = "String" -> RetString(<<>>)
      [] op = "Int" -> RetInt(0)
      [] OTHER -> RetVoid

\* The bytes staged in tr.scratch, the bytes read and not yet split into rows,
\* and the bytes the stream has not delivered yet.
Staged(t) == SubSeq(t.scratchMem, 1, t.scratchLen)
Undelivered(s) == SubSeq(s.data, s.pos + 1, Len(s.data))
Ahead(t, s) == Staged(t) \o Content(t, t.rb) \o Undelivered(s)

\* There is a complete newline-terminated row ahead, and its bytes.
RowAhead(t, s) == IndexByte(Ahead(t, s), Newline) >= 0
FollowingRow(t, s) == SubSeq(Ahead(t, s), 1, IndexByte(Ahead(t, s), Newline))

\* The current row is not empty and the cursor is not nil.
Unread(t) == Len(Content(t, t.rowBuf)) > 0 /\ t.b.src # "nil"

\* C1: once the reader holds an error, Next returns false and SkipCol, Bytes
\* and the typed decoder return the zero value, and none of them changes the
\* reader (row, col, cursor, pending bytes, scratch, error) or reads from the
\* stream; only ResetError (or Reset) ends this.
C1_StickyErrorNoOp ==
    [][(tr.err # NoErr /\ last'.op \in ColOps \cup {"Next"})
         => (tr' = tr /\ r' = r /\ last'.ret = ZeroRet(last'.op))]_vars

\* Bytes was called on a reader that held an error while columns of a
\* non-empty row were still unread.
C1_Witness ==
    /\ last.op = "Bytes" /\ last.sticky
    /\ tr.b.src # "nil" /\ tr.b.len > 0

\* C3: a Next that reaches the end of a stream ending with io.EOF returns
\* false; Error is then the truncation error if the stream ends with the bytes
\* of a row that has no newline (they are staged in scratch), and nil if the
\* stream is empty or ends with a newline.
StreamEndsInsideRow(s) == Len(s.data) > 0 /\ s.data[Len(s.data)] # Newline

C3_TruncationOrCleanEOF ==
    /\ (/\ last.op = "Next" /\ ~last.sticky
        /\ tr.err.kind # "contains unread columns"
        /\ last.ret = RetBool(FALSE) /\ r.term = "EOF")
           => /\ r.pos = Len(r.data)
              /\ (tr.scratchLen > 0) = StreamEndsInsideRow(r)
              /\ IF StreamEndsInsideRow(r)
                 THEN /\ Error(tr).kind = "cannot find newline at the end of row"
                      /\ Error(tr) # NoErr
                 ELSE Error(tr) = NoErr /\ tr.err = ErrEOF
    /\ (last.op = "Next" /\ last.ret = RetBool(TRUE)) => Error(tr) = NoErr

\* Next returned a row, and the next Next found the stream ended inside a row.
C3_Witness ==
    /\ last.op = "Next" /\ last.ret = RetBool(FALSE)
    /\ tr.err.kind = "cannot find newline at the end of row"
    /\ tr.row >= 2 /\ r.term = "EOF"

\* The byte the claim gives for the escape sequence backslash c.
EscapeTable(c) ==
    CASE c = 98 -> 8 [] c = 102 -> 12 [] c = 114 -> 13 [] c = 110 -> 10
      [] c = 116 -> 9 [] c = 48 -> 0 [] c = 39 -> 39 [] c = 92 -> 92
      [] OTHER -> c

\* A column with every two-byte escape sequence replaced, left to right.
RECURSIVE Unescaped(_)
Unescaped(col) ==
    IF Len(col) = 0 THEN <<>>
    ELSE IF col[1] = Backslash /\ Len(col) >= 2
    THEN <<EscapeTable(col[2])>> \o Unescaped(SubSeq(col, 3, Len(col)))
    ELSE <<col[1]>> \o Unescaped(Tail(col))

\* The raw bytes of the column the cursor is at.
RawColumn(t) == Content(t, nextCol(t).b)

\* C4: Bytes returns the column with every escape sequence replaced by the
\* byte it stands for, the other bytes unchanged and in order.
C4_BytesUnescapes ==
    [][(last'.op = "Bytes" /\ ~last'.ret.isnil)
         => last'.ret.v = Unescaped(RawColumn(tr))]_vars

\* C5: Next on a reader that holds no error and has unread columns returns
\* false and sets the error, and changes nothing else of the reader or the
\* stream; HasCols is true exactly when the row is not empty and the cursor is
\* not nil.
C5_NextWithUnreadColumns ==
    [][/\ HasCols(tr) = Unread(tr)
       /\ (tr.err = NoErr /\ Unread(tr) /\ last'.op = "Next")
            => /\ last'.ret = RetBool(FALSE)
               /\ tr'.err # NoErr
               /\ tr' = [tr EXCEPT !.err = tr'.err]
               /\ r' = r]_vars

\* Next has failed on a row of which the first column was read and the
\* second was not.
C5_Witness ==
    /\ last.op = "Next" /\ ~last.sticky
    /\ tr.err.kind = "contains unread columns"
    /\ tr.col = 1 /\ tr.b.src # "nil"

\* The errors of an accessor or decoder on a column of the current row.
RowLevel == {"no more columns", "invalid syntax"}

\* C6 as stated: after a row-level error and ResetError, Next returns the
\* following row whenever a complete row is ahead, also with columns unread.
C6_AsStated ==
    [][(/\ last.op = "ResetError" /\ last.cleared \in RowLevel
        /\ last'.op = "Next" /\ RowAhead(tr, r))
         => /\ last'.ret = RetBool(TRUE)
            /\ Content(tr', tr'.rowBuf) = FollowingRow(tr, r)]_vars

\* C6 amended: after a row-level error and ResetError, Next returns the
\* following row whenever a complete row is ahead and no column of the row is
\* left unread; with columns left unread it returns false, sets the error
\* "contains unread columns" and stays on the row.
C6_ContinuePastRow ==
    [][(last.op = "ResetError" /\ last.cleared \in RowLevel /\ last'.op = "Next")
         => IF Unread(tr)
            THEN /\ last'.ret = RetBool(FALSE)
                 /\ tr' = [tr EXCEPT !.err = Errorf("contains unread columns", "", tr.row, 0)]
                 /\ r' = r
            ELSE RowAhead(tr, r)
                   => /\ last'.ret = RetBool(TRUE)
                      /\ Content(tr', tr'.rowBuf) = FollowingRow(tr, r)
                      /\ tr'.b = tr'.rowBuf
                      /\ tr'.row = tr.row + 1
                      /\ tr'.err = NoErr]_vars

\* A decoder failed to parse the last column of a row, the error was reset,
\* and Next returned the following row.
C6_Witness ==
    /\ last.op = "Next" /\ last.cleared = "invalid syntax"
    /\ last.ret = RetBool(TRUE)
    /\ tr.row >= 2

\* C7: an accessor called on a row whose cursor is nil sets the error "no
\* more columns", returns the zero value and changes nothing but col and the
\* error; after ResetError, Next returns the following row whole, with the
\* cursor at its start, col 0 and no error, and loses no byte of the stream
\* behind it; with no row ahead it returns false with the end-of-stream error.
C7_OverReadThenContinue ==
    [][/\ (tr.err = NoErr /\ tr.row > 0 /\ tr.b.src = "nil" /\ last'.op \in ColOps)
            => /\ last'.ret = ZeroRet(last'.op)
               /\ tr'.err.cause = "no more columns"
               /\ tr' = [tr EXCEPT !.col = tr.col + 1, !.err = tr'.err]
               /\ r' = r
       /\ (last.op = "ResetError" /\ last.cleared = "no more columns" /\ last'.op = "Next")
            => /\ tr'.row = tr.row + 1
               /\ tr'.col = 0
               /\ RowAhead(tr, r)
                    => /\ last'.ret = RetBool(TRUE)
                       /\ Content(tr', tr'.rowBuf) = FollowingRow(tr, r)
                       /\ tr'.b = tr'.rowBuf
                       /\ tr'.err = NoErr
                       /\ Ahead(tr, r) = FollowingRow(tr, r) \o <<Newline>> \o Ahead(tr', r')
               /\ ~RowAhead(tr, r)
                    => /\ last'.ret = RetBool(FALSE)
                       /\ tr'.err # NoErr
                       /\ tr'.b.len = 0]_vars

\* After an over-read and ResetError, Next has returned a row that is not
\* empty.
C7_Witness ==
    /\ last.op = "Next" /\ last.cleared = "no more columns"
    /\ last.ret = RetBool(TRUE)
    /\ tr.rowBuf.len > 0 /\ tr.row >= 2

\* Same cursor, same counters, same error or none, and the same cause.
SameBookkeeping(a, b) ==
    /\ a.b = b.b
    /\ a.col = b.col
    /\ a.row = b.row
    /\ (a.err = NoErr) = (b.err = NoErr)
    /\ a.err.cause = b.err.cause

\* C9: SkipCol leaves the cursor, col, row and the error outcome as Bytes
\* would have left them, and Bytes as SkipCol would have.
C9_SkipColAsBytes ==
    [][/\ last'.op = "SkipCol" => SameBookkeeping(tr', Bytes(tr).tr)
       /\ last'.op = "Bytes" => SameBookkeeping(tr', SkipCol(tr).tr)]_vars

\* SkipCol has skipped a column that holds an escape sequence Bytes would
\* have unescaped in place.
C9_Witness ==
    /\ last.op = "SkipCol" /\ ~last.sticky /\ tr.err = NoErr
    /\ tr.col = 1 /\ tr.needUnescape
    /\ IndexByte(Content(tr, tr.rowBuf), Backslash) = 0
    /\ tr.rowBuf.len >= 2

\* C2: whatever the sizes of the reads, Next returns what it returns when the
\* stream is delivered in one read, the row and the column returned by Bytes
\* hold the same bytes, and Error is the same.
C2_SplitReadsAgree ==
    sh.on => /\ last.ret = sh.ret
             /\ Content(tr, tr.rowBuf) = Content(sh.tr, sh.tr.rowBuf)
             /\ Error(tr) = Error(sh.tr)

\* The stream has no escape marker and is made of newline-terminated rows.
Plain(data) ==
    /\ \A i \in 1..Len(data) : data[i] # Backslash
    /\ Len(data) > 0 => data[Len(data)] = Newline

\* C8: on a stream of newline-terminated rows without escape marker, Next
\* returns true for each row, Bytes and String return the bytes of each column
\* in order and no error is set; then Next returns false, and Error is nil if
\* the stream ended with io.EOF.
C8_RoundTrip ==
    Plain(r.data)
      => /\ Len(out) <= Len(RowsOf(r.data))
         /\ \A i \in 1..Len(out) :
                LET want == ColsOf(RowsOf(r.data)[i])
                IN /\ Len(out[i]) <= Len(want)
                   /\ i < Len(out) => Len(out[i]) = Len(want)
                   /\ \A j \in 1..Len(out[i]) :
                          /\ out[i][j].v = want[j]
                          /\ ~out[i][j].isnil
         /\ Running => tr.err = NoErr
         /\ ~Running => /\ Len(out) = Len(RowsOf(r.data))
                        /\ r.term = "EOF" => Error(tr) = NoErr

\* A stream of two columns, the first not empty, has been read to its end.
C8_Witness ==
    /\ Plain(r.data) /\ ~Running /\ r.term = "EOF"
    /\ Len(out) = 1 /\ Len(out[1]) = 2
    /\ out[1][1].v # <<>>

\* What a caller can see of a reader: everything but the bytes of the arrays
\* that no slice of the reader holds.
Visible(t) ==
    [rb |-> Content(t, t.rb), rErr |-> t.rErr, col |-> t.col, row |-> t.row,
     rowBuf |-> Content(t, t.rowBuf), rowNil |-> t.rowBuf.src = "nil",
     b |-> Content(t, t.b), bNil |-> t.b.src = "nil",
     scratch |-> Staged(t), err |-> t.err, sep |-> t.sep,
     needUnescape |-> t.needUnescape]

\* The bytes of s hold no '1'.
NoOldByte(s) == \A i \in 1..Len(s) : s[i] # 49

\* C10: after Reset the reader is as a new reader for that stream with the
\* same separator (row and col 0, no error, no row, nothing pending or
\* staged), every later call returns what it returns on the new reader and
\* leaves the same visible state, and no byte of the old stream is in a row,
\* in the pending bytes or staged.
C10_ResetAsNew ==
    /\ last.op = "Reset"
         => /\ tr.row = 0 /\ tr.col = 0 /\ tr.err = NoErr
            /\ tr.rowBuf = NilSlice /\ tr.b = NilSlice
            /\ tr.rb.len = 0 /\ tr.scratchLen = 0 /\ tr.rErr = "nil"
    /\ sh.on => /\ sh.ok
                /\ Visible(tr) = Visible(sh.tr)
                /\ r = sh.r
                /\ last.op # "Reset" => last.ret = sh.ret
                /\ NoOldByte(Content(tr, tr.rowBuf) \o Content(tr, tr.rb) \o Staged(tr))
                /\ last.ret.k = "bytes" => NoOldByte(last.ret.v)

\* Reset was called with bytes of the old stream left in the scratch array,
\* and the reader has since returned a row of the new stream that is not empty.
C10_Witness ==
    /\ sh.on /\ last.op = "Next" /\ last.ret = RetBool(TRUE)
    /\ tr.rowBuf.len > 0
    /\ tr.scratchMem # sh.tr.scratchMem

\* C11: a column operation called before the first Next (row = 0) returns the
\* zero value, sets an error with the cause "missing Next call" that stays
\* until ResetError, and changes nothing else of the reader: the cursor, the
\* counters, the pending bytes and the stream are as they were.
C11_BeforeFirstNext ==
    [][(tr.err = NoErr /\ tr.row = 0 /\ last'.op \in ColOps)
         => /\ last'.ret = ZeroRet(last'.op)
            /\ tr'.err # NoErr
            /\ tr'.err.cause = "missing Next call"
            /\ tr' = [tr EXCEPT !.err = tr'.err]
            /\ r' = r]_vars

\* Bytes has been called on a reader that held no error and had read no row.
C11_Witness ==
    /\ last.op = "Bytes" /\ ~last.sticky
    /\ tr.row = 0
    /\ tr.err.cause = "missing Next call"

\* ------------------------------------------------ decoders of sized integers
\* A stream of one row with one column; Next reads it, then one of the sized
\* decoders parses the column.
\* Longest column made of arbitrary bytes.
DecLen == 3
\* How far around the limits of the integer types the columns reach.
Margin == 2

\* '+', '-', '0' and '1'.
DecodeAlphabet == {43, 45, 48, 49}

\* The limits of int16, int8, uint8 and uint16.
Limits == {0 - 32768, 0 - 128, 0, 127, 255, 32767, 65535}

\* The integers the columns may stand for.
Values ==
    ((0 - 10 ^ (DecLen - 1))..(10 ^ DecLen))
        \cup UNION {(b - Margin)..(b + Margin) : b \in Limits}

\* strconv.Itoa: the decimal text of n.
RECURSIVE Digits(_)
Digits(n) == IF n < 10 THEN <<48 + n>> ELSE Digits(n \div 10) \o <<48 + (n % 10)>>

Itoa(n) == IF n < 0 THEN <<45>> \o Digits(0 - n) ELSE Digits(n)

DecodeInputs ==
    SeqsUpTo(DecodeAlphabet, DecLen)
        \cup UNION {{Itoa(b + k) : k \in (0 - Margin)..Margin} : b \in Limits}

DecodeInit ==
    /\ tr = NewCSV
    /\ r \in {Stream(c \o <<Newline>>, "EOF", TRUE) : c \in DecodeInputs}
    /\ last = Start
    /\ sh = NoShadow
    /\ out = <<>>

DecodeNext ==
    /\ tr.row = 0
    /\ \E o \in ReaderNext(tr, r, 0) :
           /\ tr' = o.tr
           /\ r' = o.r
           /\ last' = Did("Next", RetBool(o.ret))
    /\ UNCHANGED <<sh, out>>

\* The row has been read and none of its columns.
ColumnDue == tr.row = 1 /\ tr.col = 0 /\ tr.err = NoErr

DecodeInt16 ==
    /\ ColumnDue
    /\ tr' = Int16(tr).tr
    /\ last' = Did("Int16", Int16(tr).ret)
    /\ UNCHANGED <<r, sh, out>>

DecodeUint16 ==
    /\ ColumnDue
    /\ tr' = Uint16(tr).tr
    /\ last' = Did("Uint16", Uint16(tr).ret)
    /\ UNCHANGED <<r, sh, out>>

DecodeInt8 ==
    /\ ColumnDue
    /\ tr' = Int8(tr).tr
    /\ last' = Did("Int8", Int8(tr).ret)
    /\ UNCHANGED <<r, sh, out>>

DecodeUint8 ==
    /\ ColumnDue
    /\ tr' = Uint8(tr).tr
    /\ last' = Did("Uint8", Uint8(tr).ret)
    /\ UNCHANGED <<r, sh, out>>

DecodeStep == DecodeNext \/ DecodeInt16 \/ DecodeUint16 \/ DecodeInt8 \/ DecodeUint8

SpecDecode == DecodeInit /\ [][DecodeStep]_vars

\* The column of the one-row stream.
TheColumn == SubSeq(r.data, 1, Len(r.data) - 1)

\* The decimal texts of the integers, and the texts that stand for v: an
\* optional sign and leading zeros before the digits.
TextOf == [v \in Values |-> Digits(IF v < 0 THEN 0 - v ELSE v)]

Zeros(k) == [i \in 1..k |-> 48]

Denotes(col, v) ==
    \E sign \in (IF v >= 0 THEN {<<>>, <<43>>} ELSE {}) \cup (IF v <= 0 THEN {<<45>>} ELSE {}) :
        LET k == Len(col) - Len(sign) - Len(TextOf[v])
        IN k >= 0 /\ col = sign \o Zeros(k) \o TextOf[v]

\* What a decoder of the range lo..hi has to return and leave for column col.
Decoded(col, lo, hi, below) ==
    LET meant == {v \in Values : Denotes(col, v)}
    IN /\ \A v \in meant :
             IF lo <= v /\ v <= hi
             THEN last.ret = RetInt(v) /\ tr.err = NoErr
             ELSE /\ last.ret = RetInt(0)
                  /\ tr.err.cause = (IF v < lo THEN below ELSE "out of range")
       /\ meant = {} => last.ret = RetInt(0) /\ tr.err.cause = "invalid syntax"

DateSlack == 1

\* Years "2020", "0000", "20n0"; months "01", "13", "00", "n1"; days "02",
\* "31", "00"; the bytes '-', '/' and '1' where the dashes belong.
DateYears == {<<50, 48, 50, 48>>, <<48, 48, 48, 48>>, <<50, 48, 110, 48>>}
DateMonths == {<<48, 49>>, <<49, 51>>, <<48, 48>>, <<110, 49>>}
DateDays == {<<48, 50>>, <<51, 49>>, <<48, 48>>}
DateSeps == {45, 47, 49}

DateShaped ==
    {y \o <<a>> \o m \o <<b>> \o d :
        y \in DateYears, a \in DateSeps, m \in DateMonths, b \in DateSeps, d \in DateDays}

\* The ten-byte columns, what is left of them when bytes are missing at the
\* end, and the ones with bytes too many.
DateInputs ==
    {SubSeq(c, 1, k) : c \in DateShaped, k \in 0..10}
        \cup {c \o x : c \in DateShaped, x \in SeqsUpTo({48}, DateSlack)}

DateInit ==
    /\ tr = NewCSV
    /\ r \in {Stream(c \o <<Newline>>, "EOF", TRUE) : c \in DateInputs}
    /\ last = Start
    /\ sh = NoShadow
    /\ out = <<>>

DecodeDate ==
    /\ ColumnDue
    /\ tr' = Date(tr).tr
    /\ last' = Did("Date", Date(tr).ret)
    /\ UNCHANGED <<r, sh, out>>

DateStep == DecodeNext \/ DecodeDate

SpecDate == DateInit /\ [][DateStep]_vars

\* C13: Date sets an error and returns the zero time for every column that is
\* not 10 bytes long and for every 10-byte column whose byte at offset 4 or
\* whose byte at offset 7 is not '-'.
C13_DateRejectsMalformed ==
    (last.op = "Date" /\ (Len(TheColumn) # 10 \/ TheColumn[5] # 45 \/ TheColumn[8] # 45))
        => (tr.err # NoErr /\ last.ret = zeroTime)

\* C14: once a Read has returned an error or io.EOF, no operation calls Read
\* on the stream again and tr.rErr keeps that error, whatever Next, column
\* operations and ResetError follow; every later Next that gets past its checks
\* and finds no newline in the pending bytes returns false and reports the
\* terminal condition: the stream's error as the cause of "cannot read row",
\* or for io.EOF a nil Error() or, with bytes of a row staged, "cannot find
\* newline at the end of row".
C14_NoReadAfterStreamEnd ==
    [][/\ r'.late = 0
       /\ tr.rErr # "nil" => (tr'.rErr = tr.rErr /\ r' = r)
       /\ (/\ tr.rErr # "nil" /\ tr.err = NoErr /\ ~Unread(tr)
           /\ IndexByte(Content(tr, tr.rb), Newline) < 0
           /\ last'.op = "Next")
            => /\ last'.ret = RetBool(FALSE)
               /\ tr.rErr = "ERR"
                    => tr'.err.kind = "cannot read row" /\ tr'.err.cause = "ERR"
               /\ tr.rErr = "EOF"
                    => IF Staged(tr) \o Content(tr, tr.rb) = <<>>
                       THEN tr'.err = ErrEOF /\ Error(tr') = NoErr
                       ELSE tr'.err.kind = "cannot find newline at the end of row"]_vars

\* The stream has ended with io.EOF, Next has reported it, the error has been
\* cleared and Next has been called once more.
C14_Witness ==
    /\ last.op = "Next" /\ last.cleared = "EOF"
    /\ last.ret = RetBool(FALSE)
    /\ tr.err = ErrEOF /\ r.term = "EOF"

\* C15 as stated: every Next that starts a new row sets col to 0, and every
\* column operation that reaches nextCol increments col by one, also when
\* nextCol fails because no row has been read or no column is left.
C15_AsStated ==
    [][/\ (last'.op = "Next" /\ tr.err = NoErr /\ ~Unread(tr)) => tr'.col = 0
       /\ (last'.op \in ColOps /\ tr.err = NoErr) => tr'.col = tr.col + 1]_vars

\* C15, amended: every Next that starts a new row sets col to 0; every column
\* operation that reaches nextCol after a row has been read increments col by
\* one, also when no column is left; before the first Next it leaves col at 0.
C15_ColCounts ==
    [][/\ (last'.op = "Next" /\ tr.err = NoErr /\ ~Unread(tr)) => tr'.col = 0
       /\ (last'.op \in ColOps /\ tr.err = NoErr /\ tr.row > 0) => tr'.col = tr.col + 1
       /\ (last'.op \in ColOps /\ tr.err = NoErr /\ tr.row = 0)
            => (tr.col = 0 /\ tr'.col = 0)]_vars

\* A column operation has failed for want of a column on a row of which one
\* column had been read, and has counted itself.
C15_Witness ==
    /\ last.op \in ColOps /\ ~last.sticky
    /\ tr.err.cause = "no more columns"
    /\ tr.col = 2 /\ tr.err.col = 2

\* The newlines among the bytes of the stream the reader has gone past: the
\* bytes delivered less the bytes still pending in tr.rb.
NewlinesPassed(t, s) ==
    Cardinality({i \in 1..(s.pos - t.rb.len) : s.data[i] = Newline})

\* C16: no Next, column operation or ResetError decreases row, and whenever
\* Next returns true, row is the 1-based ordinal of the row returned among the
\* newline-terminated rows of the stream, and the row returned is that row,
\* whatever failed calls of Next, column errors and calls of ResetError
\* came before.
C16_RowOrdinal ==
    [][/\ tr'.row >= tr.row
       /\ (last'.op = "Next" /\ last'.ret = RetBool(TRUE))
            => /\ tr'.row = NewlinesPassed(tr', r')
               /\ tr'.row <= Len(RowsOf(r'.data))
               /\ Content(tr', tr'.rowBuf) = RowsOf(r'.data)[tr'.row]]_vars

\* Next has returned the third row of the stream right after an error was
\* cleared with ResetError.
C16_Witness ==
    /\ last.op = "Next" /\ last.ret = RetBool(TRUE)
    /\ last.cleared # ""
    /\ tr.row = 3

\* ------------------------------------------------- the refill loop, by steps
\* Next one iteration of its for loop at a time.  While the loop runs last.op
\* is "Next:loop"; when Next returns it is "Next".  Besides the streams that
\* end with io.EOF or an error there are the streams that never end: after its
\* data an "idle" stream returns no bytes and a nil error from every Read, an
\* "endless" stream one more byte 'n'.

\* The bytes of these streams: 'n', ',' and '\n'.
LoopInputs == SeqsUpTo({110, Comma, Newline}, MaxLen)

NeverEnding(s) == s.fate \in {"idle", "endless"}

\* The results Read can return on stream s.
LoopReads(s) ==
    IF ~NeverEnding(s)
    THEN PossibleReads(s, 1)
    ELSE LET rem == Len(s.data) - s.pos
             rest == SubSeq(s.data, s.pos + 1, Len(s.data))
         IN {[p |-> SubSeq(rest, 1, n), err |-> "nil"] : n \in 0..Min(BufSize, rem)}
                \cup (IF rem = 0 /\ s.fate = "endless" THEN {[p |-> <<110>>, err |-> "nil"]} ELSE {})

LoopAfterRead(s, rd) ==
    IF NeverEnding(s)
    THEN [s EXCEPT !.pos = Min(Len(s.data), s.pos + Len(rd.p))]
    ELSE AfterRead(s, rd)

\* Whether the iteration calls Read.
Refills(t) == t.rb.len = 0 /\ t.rErr = "nil"

\* An iteration that sets the error at the end of the stream and goes round
\* again instead of returning.
NextIterationNoReturnAtStreamEnd(t, s, rd) ==
    IF t.rb.len = 0 /\ t.rErr # "nil"
    THEN [tr |-> NextStreamEnd(t), r |-> s, done |-> FALSE, ret |-> FALSE]
    ELSE LET t1 == IF t.rb.len = 0 THEN Fill(t, rd) ELSE t
             s1 == IF t.rb.len = 0 THEN LoopAfterRead(s, rd) ELSE s
             n == IndexByte(Content(t1, t1.rb), Newline)
         IN IF n >= 0
            THEN [tr |-> NextRowFound(t1, n), r |-> s1, done |-> TRUE, ret |-> TRUE]
            ELSE [tr |-> [AppendScratch(t1, Content(t1, t1.rb)) EXCEPT !.rb = NilSlice],
                  r |-> s1, done |-> FALSE, ret |-> FALSE]

\* One iteration of the for loop of Next; rd is what Read returns if the
\* iteration calls it.  [tr, r, done, ret]: done says that Next returns, ret
\* what it returns.
NextIteration(t, s, rd) ==
    IF t.rb.len = 0 /\ t.rErr # "nil"
    THEN [tr |-> NextStreamEnd(t), r |-> s, done |-> TRUE, ret |-> FALSE]
    ELSE LET t1 == IF t.rb.len = 0 THEN Fill(t, rd) ELSE t
             s1 == IF t.rb.len = 0 THEN LoopAfterRead(s, rd) ELSE s
             n == IndexByte(Content(t1, t1.rb), Newline)
         IN IF n >= 0
            THEN [tr |-> NextRowFound(t1, n), r |-> s1, done |-> TRUE, ret |-> TRUE]
            ELSE [tr |-> [AppendScratch(t1, Content(t1, t1.rb)) EXCEPT !.rb = NilSlice],
                  r |-> s1, done |-> FALSE, ret |-> FALSE]

Looping == last.op = "Next:loop"

LoopInit ==
    /\ tr = NewCSV
    /\ r \in {Stream(d, f, FALSE) : d \in LoopInputs, f \in {"EOF", "ERR", "idle", "endless"}}
    /\ last = Start
    /\ sh = NoShadow
    /\ out = <<>>

\* The call of Next up to its for loop.
LoopCall ==
    /\ ~Looping
    /\ tr.row < MaxRow
    /\ IF tr.err # NoErr
       THEN tr' = tr /\ last' = Did("Next", RetBool(FALSE))
       ELSE IF HasCols(tr)
       THEN /\ tr' = [tr EXCEPT !.err = Errorf("contains unread columns", "", tr.row, 0)]
            /\ last' = Did("Next", RetBool(FALSE))
       ELSE /\ tr' = [tr EXCEPT !.row = tr.row + 1, !.col = 0, !.rowBuf = NilSlice]
            /\ last' = Did("Next:loop", RetVoid)
    /\ UNCHANGED <<r, sh, out>>

Iterate(rd) ==
    LET o == NextIteration(tr, r, rd)
    IN /\ tr' = o.tr
       /\ r' = o.r
       /\ last' = IF o.done THEN Did("Next", RetBool(o.ret)) ELSE Did("Next:loop", RetVoid)
       /\ UNCHANGED <<sh, out>>

\* An iteration whose Read returns no bytes and a nil error.
LoopIdle ==
    /\ Looping /\ Refills(tr)
    /\ [p |-> <<>>, err |-> "nil"] \in LoopReads(r)
    /\ Iterate([p |-> <<>>, err |-> "nil"])

\* An iteration that calls Read and gets bytes or an error, or that has no
\* need to call it.
LoopProgress ==
    /\ Looping
    /\ tr.scratchLen <= MaxLen
    /\ IF Refills(tr)
       THEN \E rd \in LoopReads(r) : (Len(rd.p) > 0 \/ rd.err # "nil") /\ Iterate(rd)
       ELSE Iterate([p |-> <<>>, err |-> "nil"])

LoopSkipCol ==
    /\ ~Looping
    /\ tr.col < MaxCol
    /\ tr' = SkipCol(tr).tr
    /\ last' = Did("SkipCol", SkipCol(tr).ret)
    /\ UNCHANGED <<r, sh, out>>

LoopResetError ==
    /\ ~Looping
    /\ tr' = ResetError(tr)
    /\ last' = Did("ResetError", RetVoid)
    /\ UNCHANGED <<r, sh, out>>

LoopStep == LoopCall \/ LoopIdle \/ LoopProgress \/ LoopSkipCol \/ LoopResetError

\* The stream does not return no bytes and a nil error for ever when it has
\* bytes or an error to return.
SpecLoop == LoopInit /\ [][LoopStep]_vars /\ WF_vars(LoopProgress)

\* C17: a call of Next returns once the stream has delivered a newline, an
\* error or io.EOF; on a stream that from some point on returns no bytes with
\* a nil error, or bytes without a newline, for ever, a call of Next that has
\* no newline ahead goes on looping and never returns.
C17_NextTerminates ==
    /\ (Looping /\ ~NeverEnding(r)) ~> ~Looping
    /\ [][(Looping /\ NeverEnding(r) /\ ~RowAhead(tr, r)) => Looping']_vars

\* Next is looping on a stream that has delivered all its bytes and now
\* returns no bytes and a nil error from every Read.
C17_Witness ==
    /\ Looping
    /\ r.fate = "idle" /\ r.pos = Len(r.data)
    /\ tr.rb.len = 0 /\ tr.scratchLen > 0

\* C18: when the stream's last Read has returned bytes together with an error
\* or io.EOF, each Next that gets past its checks returns true as long as a
\* complete row is ahead (in the bytes staged in tr.scratch followed by the
\* bytes of that Read): it returns that row, with no error, and keeps every
\* byte behind it pending; only a Next with no complete row ahead returns
\* false and sets the error.
C18_RowsBeforeStreamError ==
    [][(/\ last'.op = "Next" /\ tr.err = NoErr /\ ~Unread(tr)
        /\ tr'.rErr # "nil")
         => IF RowAhead(tr, r)
            THEN /\ last'.ret = RetBool(TRUE)
                 /\ tr'.err = NoErr
                 /\ Content(tr', tr'.rowBuf) = FollowingRow(tr, r)
                 /\ Ahead(tr, r) = FollowingRow(tr, r) \o <<Newline>> \o Ahead(tr', r')
            ELSE /\ last'.ret = RetBool(FALSE)
                 /\ tr'.err # NoErr]_vars

\* The second row of the stream has been returned from the bytes of a Read
\* that returned an error together with them.
C18_Witness ==
    /\ last.op = "Next" /\ last.ret = RetBool(TRUE)
    /\ tr.rErr = "ERR" /\ tr.err = NoErr
    /\ tr.row = 2
    /\ tr.rowBuf.len > 0

\* ------------------------------------------------------ unescaping in place
\* Streams long enough for a row to hold an escaped column with columns after
\* it and rows behind it, read with Next, Bytes and SkipCol.
\* Longest stream content, in bytes.
EscLen == 5

\* '\\', 'n', ',' and '\n'.
EscInputs == SeqsUpTo({Backslash, 110, Comma, Newline}, EscLen)

EscInit ==
    /\ tr = NewCSV
    /\ r \in {Stream(d, "EOF", FALSE) : d \in EscInputs}
    /\ last = Start
    /\ sh = NoShadow
    /\ out = <<>>

EscNext ==
    /\ tr.row < MaxRow
    /\ \E o \in ReaderNext(tr, r, 0) :
           /\ tr' = o.tr
           /\ r' = o.r
           /\ last' = Did("Next", RetBool(o.ret))
    /\ UNCHANGED <<sh, out>>

EscStep == EscNext \/ DoBytes \/ DoSkipCol

SpecEscape == EscInit /\ [][EscStep]_vars

\* The column nextCol is about to return: the bytes of the cursor up to the
\* first separator.
ColumnAhead(t) ==
    LET n == IndexByte(Content(t, t.b), t.sep)
    IN Slice(t.b.src, t.b.off, IF n < 0 THEN t.b.len ELSE n)

\* Array src is the same in t and u outside the window w.
SameOutside(t, u, src, w) ==
    /\ Len(Mem(u, src)) = Len(Mem(t, src))
    /\ \A i \in 1..Len(Mem(t, src)) :
          (src # w.src \/ i <= w.off \/ i > w.off + w.len) => Mem(u, src)[i] = Mem(t, src)[i]

\* C19: Bytes writes only inside the bytes of the column it returns: what it
\* returns is no longer than the raw column, every byte of tr.rBuf and of the
\* scratch array outside the column is as before, and the cursor, the
\* counters, the pending bytes and the error are left as SkipCol leaves them.
C19_UnescapeStaysInColumn ==
    [][(last'.op = "Bytes" /\ tr.err = NoErr /\ tr.row > 0 /\ tr.b.src # "nil")
         => /\ Len(last'.ret.v) <= ColumnAhead(tr).len
            /\ SameOutside(tr, tr', "rBuf", ColumnAhead(tr))
            /\ SameOutside(tr, tr', "scratch", ColumnAhead(tr))
            /\ tr' = [SkipCol(tr).tr EXCEPT !.rBuf = tr'.rBuf, !.scratchMem = tr'.scratchMem]
            /\ tr'.err = NoErr
            /\ r' = r]_vars

\* Bytes has returned a column shorter than its raw bytes while another
\* column of the row was still unread and bytes of a later row were pending.
C19_Witness ==
    /\ last.op = "Bytes" /\ tr.err = NoErr
    /\ tr.b.src # "nil" /\ tr.rb.len > 0
    /\ Len(last.ret.v) > 0
    /\ tr.b.off - tr.rowBuf.off - 1 > Len(last.ret.v)
    /\ tr.col = 1

\* The most recent Next that got past its checks returned false: it set
\* tr.rowBuf to nil and found no row.
NoCurrentRow(t) == t.row > 0 /\ t.rowBuf.src = "nil"

\* C20: after a Next that returned false at the end of the stream (io.EOF, a
\* stream error or a row without its newline), every column operation either
\* changes nothing or sets an error, also after ResetError, until a later Next
\* returns true: no column is served from the cursor of an earlier row.
C20_NoColumnAfterFailedNext ==
    [][(NoCurrentRow(tr) /\ last'.op \in ColOps)
         => (tr' = tr \/ tr'.err # NoErr)]_vars
====
